---- MODULE Spec2Model ----
(***************************************************************************)
(* Model of the pds audio player (gbPagano/pds): the audio feed engine     *)
(* (audio_task), the rotary-encoder volume path (encoder_reader_task,      *)
(* ENCODER_CHANNEL, volume_handler_task), the three transport buttons      *)
(* (button_task) and the display refresher (display_task).                 *)
(*                                                                         *)
(* Scheduling: all tasks run on one embassy executor, so a task runs       *)
(* without interleaving between two of its await points.  The engine's     *)
(* cycle is split into steps (pc) so that its intermediate states can be   *)
(* observed, and every other task only moves while the engine is at its    *)
(* await (pc = "await").                                                   *)
(*                                                                         *)
(* Time: in most specifications the free space of the DMA buffer and the   *)
(* outcome of the progress-log test are drawn afresh in every cycle (the   *)
(* time variables hold Untracked).  SpecDma follows the buffer byte by     *)
(* byte and SpecClock follows the age of last_log_time, each cycle lasting *)
(* its Timer::after.  SpecGain and SpecCatalog run the gain stage and the  *)
(* catalog on their own.                                                   *)
(*                                                                         *)
(* usize values stay far below 2^32 for the catalog modelled here, so      *)
(* usize arithmetic is not reduced; u8 arithmetic is reduced mod 256.      *)
(***************************************************************************)
EXTENDS Integers, Sequences, FiniteSets, TLC

\* ------------------------------------------------------------------------
\* Bounds of the model
\* ------------------------------------------------------------------------

\* encoder events sent in a run of the full system
SysSends == 1

\* encoder events sent in a run of the encoder/volume subsystem
MaxSends == 12

\* encoder events sent in a run that starts from an arbitrary volume
LawSends == 5

\* raises of one signal counted between two polls
MaxRaises == 2

\* button presses in a run of the full system
SysPresses == 2

\* button presses in a run that follows the DMA buffer
DmaPresses == 2

\* button presses in a run that follows the progress-log clock
ClockPresses == 2

\* largest catalog the cyclic law is walked over
MaxTracks == 6

\* the gain stage is applied to every sample of magnitude up to MaxSample
\* (and to the samples of EdgeSamples)
MaxSample == 150

\* ------------------------------------------------------------------------
\* Program constants
\* ------------------------------------------------------------------------

ENCODER_CAPACITY == 10

VOLUME_STEP == 5

VOLUME_MAX == 100

VOLUME_INIT == 50

SILENCE_LEN == 512

CHUNK_LEN == 512

HIGH_WATER == 1024

DMA_BUFFER_SIZE == 4 * 4092

\* I2S output: 11025 samples per second of 16-bit mono (src/main.rs 59-61)
SAMPLE_RATE == 11025

BYTES_PER_SAMPLE == 2

\* Timer::after of the fill path and of the paused path, in ms
FILL_DELAY_MS == 5

PAUSE_DELAY_MS == 10

\* the progress-log period, in ms
LOG_PERIOD_MS == 1000

\* ------------------------------------------------------------------------
\* Helpers
\* ------------------------------------------------------------------------

Min(a, b) == IF a < b THEN a ELSE b

Max(a, b) == IF a > b THEN a ELSE b

U8(x) == x % 256

None == << >>

Some(v) == << v >>

Directions == {"Clockwise", "CounterClockwise"}

\* ------------------------------------------------------------------------
\* Catalog (crate::music::Musics)
\* ------------------------------------------------------------------------

NumTracks == 3

\* byte length of each track's PCM data
TrackBytes(m) == CASE m = 0 -> 5120
                   [] m = 1 -> 4608
                   [] OTHER -> 700 + 300 * (m - 2)

Musics == 0 .. (NumTracks - 1)

from_index(i) == IF i \in Musics THEN i ELSE 0

to_index(m) == m

\* a next that stops at the last track
catalog_next_clamped(m, n) == IF m + 1 < n THEN m + 1 ELSE n - 1

\* next and prev in a catalog of n tracks: cyclic, one step
catalog_next(m, n) == (m + 1) % n

catalog_prev(m, n) == (m + n - 1) % n

Musics_next(m) == catalog_next(m, NumTracks)

Musics_prev(m) == catalog_prev(m, NumTracks)

\* values transfer.available() is observed to return
AvailValues == {300, HIGH_WATER, HIGH_WATER + 1}

VARIABLES
    VOLUME,               \* AtomicU8
    CURRENT_PERCENTAGE,   \* AtomicU8
    IS_PLAYING,           \* AtomicBool
    CURRENT_MUSIC_INDEX,  \* AtomicU8
    IS_PLAYING_SIGNAL,    \* Signal<bool>: None or Some(TRUE)
    NEXT,                 \* Signal<bool>
    PREVIOUS,             \* Signal<bool>
    ENCODER_CHANNEL,      \* Channel<EncoderDirection, 10>: sequence
    encPc,                \* encoder_reader_task: "edge" or "send"
    direction,            \* encoder_reader_task: direction being sent
    pc,                   \* audio_task: "await", "next", "prev", "publish", "feed"
    current_music,        \* audio_task local
    total_len,            \* audio_task local
    audio_offset,         \* audio_task local
    is_playing,           \* audio_task local
    avail,                \* audio_task local: last transfer.available()
    pushed,               \* last transfer.push: [kind, len]
    wave,                 \* display_task: parity of the wave animation frame
    last_log_time,        \* audio_task local, as ms elapsed since that Instant
    level,                \* circular DMA buffer: [data: bytes pushed and not yet
                          \*   sent, part: thousandths sent of the byte going out]
    \* history
    pre,                  \* engine state before the engine's last step
    cyc,                  \* engine state and pending signals at cycle start
    raises,               \* signal() calls per signal since its last try_take
    took,                 \* raises consumed by the last poll of each signal
    sentLog,              \* events accepted by ENCODER_CHANNEL.send, in order
    applied,              \* events applied by volume_handler_task
    sendLimit,            \* bound on Len(sentLog) in this run
    pressesLeft,          \* button presses left in this run, Unlimited if unbounded
    v0,                   \* VOLUME at start
    logHist,              \* periodic publications: [age: ms since the last one,
                          \*   fired: the last feed made one]
    \* the gain stage and the catalog taken alone
    sample_bytes,         \* two little-endian bytes of track data, as a u16
    amplified,            \* the two bytes the gain stage wrote for them, or None
    cat                   \* a catalog of n tracks and a walk over it

statics == << VOLUME, CURRENT_PERCENTAGE, IS_PLAYING, CURRENT_MUSIC_INDEX >>

signals == << IS_PLAYING_SIGNAL, NEXT, PREVIOUS >>

encoderVars == << ENCODER_CHANNEL, encPc, direction, sentLog, applied, sendLimit, v0 >>

audioEnv == << signals, raises, pressesLeft >>

audioLocals == << pc, current_music, total_len, audio_offset, is_playing, avail, pushed >>

displayVars == << wave >>

audioHist == << pre, cyc, took, logHist >>

\* time as the engine sees it: its log Instant and the DMA buffer
audioTime == << last_log_time, level >>

pureVars == << sample_bytes, amplified, cat >>

\* value of a time or history variable a specification does not follow
Untracked == 0 - 1

Unlimited == 0 - 1

vars == << VOLUME, CURRENT_PERCENTAGE, IS_PLAYING, CURRENT_MUSIC_INDEX,
           IS_PLAYING_SIGNAL, NEXT, PREVIOUS, ENCODER_CHANNEL, encPc, direction,
           pc, current_music, total_len, audio_offset, is_playing, avail, pushed,
           wave, last_log_time, level, pre, cyc, raises, took, sentLog,
           applied, sendLimit, pressesLeft, v0, logHist, sample_bytes,
           amplified, cat >>

\* ------------------------------------------------------------------------
\* Signal<bool> (embassy_sync::signal::Signal)
\* ------------------------------------------------------------------------

\* Signal::signal(v): the slot holds v, whatever it held
signal(slot, v) == Some(v)

\* a poll that reads the slot without emptying it
try_take_peek(slot) == slot

\* Signal::try_take(): the slot after the take
try_take(slot) == None

is_some(opt) == opt # None

\* ------------------------------------------------------------------------
\* Snapshots (history)
\* ------------------------------------------------------------------------

EngineState == [ music    |-> current_music,
                 total    |-> total_len,
                 offset   |-> audio_offset,
                 playing  |-> is_playing,
                 index    |-> CURRENT_MUSIC_INDEX,
                 percent  |-> CURRENT_PERCENTAGE,
                 flag     |-> IS_PLAYING ]

CycleStart == [ music   |-> current_music,
                offset  |-> audio_offset,
                playing |-> is_playing,
                toggle  |-> is_some(IS_PLAYING_SIGNAL),
                next    |-> is_some(NEXT),
                prev    |-> is_some(PREVIOUS) ]

\* ------------------------------------------------------------------------
\* Initial state
\* ------------------------------------------------------------------------

\* statics that start with the play flag set
InitStatics_playing ==
    /\ CURRENT_PERCENTAGE = 0
    /\ IS_PLAYING = TRUE
    /\ CURRENT_MUSIC_INDEX = 0
    /\ IS_PLAYING_SIGNAL = None
    /\ NEXT = None
    /\ PREVIOUS = None
    /\ ENCODER_CHANNEL = << >>

\* the statics as declared (src/audio.rs 13-23, src/encoder.rs 6)
InitStatics ==
    /\ CURRENT_PERCENTAGE = 0
    /\ IS_PLAYING = FALSE
    /\ CURRENT_MUSIC_INDEX = 0
    /\ IS_PLAYING_SIGNAL = None
    /\ NEXT = None
    /\ PREVIOUS = None
    /\ ENCODER_CHANNEL = << >>

InitTasks ==
    /\ encPc = "edge"
    /\ direction = "Clockwise"
    /\ pc = "await"
    /\ current_music = from_index(CURRENT_MUSIC_INDEX)
    /\ total_len = TrackBytes(from_index(CURRENT_MUSIC_INDEX))
    /\ audio_offset = 0
    /\ is_playing = IS_PLAYING
    /\ avail = 0
    /\ pushed = [kind |-> "none", len |-> 0]
    /\ wave = FALSE

InitHist ==
    /\ pre = [ music |-> 0, total |-> TrackBytes(0), offset |-> 0, playing |-> FALSE,
               index |-> 0, percent |-> 0, flag |-> FALSE ]
    /\ cyc = [ music |-> 0, offset |-> 0, playing |-> FALSE,
               toggle |-> FALSE, next |-> FALSE, prev |-> FALSE ]
    /\ raises = [ toggle |-> 0, next |-> 0, prev |-> 0 ]
    /\ took = [ toggle |-> 0, next |-> 0, prev |-> 0 ]
    /\ sentLog = << >>
    /\ applied = 0

\* time is not followed: the free space and the age of the log Instant are
\* drawn afresh in every cycle
InitUntimed ==
    /\ last_log_time = Untracked
    /\ level = [data |-> Untracked, part |-> 0]
    /\ logHist = [age |-> Untracked, fired |-> FALSE]

\* the catalog of the build with no walk asked of it
NoWalk == [n |-> NumTracks, start |-> 0, cur |-> 0, index |-> 0, walk |-> << >>,
           plan |-> << >>]

\* no sample in the gain stage, no catalog walk
InitIdle ==
    /\ sample_bytes = 0
    /\ amplified = None
    /\ cat = NoWalk

Init ==
    /\ VOLUME = VOLUME_INIT
    /\ v0 = VOLUME_INIT
    /\ sendLimit = SysSends
    /\ pressesLeft = SysPresses
    /\ InitStatics /\ InitTasks /\ InitHist /\ InitUntimed /\ InitIdle

\* ------------------------------------------------------------------------
\* audio_task (src/audio.rs)
\* ------------------------------------------------------------------------

\* load_track without the cursor reset
load_track_keeps_offset(new_music) ==
    /\ current_music' = new_music
    /\ CURRENT_MUSIC_INDEX' = to_index(new_music)
    /\ total_len' = TrackBytes(new_music)
    /\ audio_offset' = audio_offset
    /\ CURRENT_PERCENTAGE' = 0
    /\ UNCHANGED << VOLUME, IS_PLAYING >>

\* load_track with the index store left out
load_track_no_index(new_music) ==
    /\ current_music' = new_music
    /\ CURRENT_MUSIC_INDEX' = CURRENT_MUSIC_INDEX
    /\ total_len' = TrackBytes(new_music)
    /\ audio_offset' = 0
    /\ CURRENT_PERCENTAGE' = 0
    /\ UNCHANGED << VOLUME, IS_PLAYING >>

\* load_track resetting the wrong AtomicU8
load_track_wrong_static(new_music) ==
    /\ current_music' = new_music
    /\ CURRENT_MUSIC_INDEX' = to_index(new_music)
    /\ total_len' = TrackBytes(new_music)
    /\ audio_offset' = 0
    /\ VOLUME' = 0
    /\ UNCHANGED << CURRENT_PERCENTAGE, IS_PLAYING >>

\* load_track: commit a track switch; of the shared fields it stores
\* CURRENT_MUSIC_INDEX and CURRENT_PERCENTAGE
load_track(new_music) ==
    /\ current_music' = new_music
    /\ CURRENT_MUSIC_INDEX' = to_index(new_music)
    /\ total_len' = TrackBytes(new_music)
    /\ audio_offset' = 0
    /\ CURRENT_PERCENTAGE' = 0
    /\ UNCHANGED << VOLUME, IS_PLAYING >>

\* the 10% test with the boundary on the restart side
restart_current_inclusive(offset, total) == (offset * 100) \div total >= 10

\* the test of line 99: more than 10% of the track has been played
restart_current(offset, total) == (offset * 100) \div total > 10

\* the end-of-track test missing the exact end
at_eof_strict(offset, len) == offset > len

\* the test of line 158: the cursor has consumed the track
at_eof(offset, len) == offset >= len

\* Playing forced only by a track switch
playing_after_switch_only(restarted, playing) == IF restarted THEN playing ELSE TRUE

\* line 114: the play state after a Previous, in either branch
playing_after_previous(restarted, playing) == TRUE

\* a chunk cut to the free space only
chunk_size_unclamped(a, remaining) == Min(CHUNK_LEN, a)

\* line 132: bytes of track data pushed by one fill
chunk_size(a, remaining) == Min(Min(CHUNK_LEN, a), remaining)

\* a paused cycle that pushes nothing
silence_chunk_none(a) == 0

\* a silence push of the whole 512-byte block
silence_chunk_whole(a) == SILENCE_LEN

\* line 125: bytes of the zeroed block pushed by one paused cycle
silence_chunk(a) == Min(a, SILENCE_LEN)

\* line 151-152: the published percentage
percent_u8(offset, total) == U8((offset * 100) \div total)

\* ------------------------------------------------------------------------
\* The gain stage (src/audio.rs 135-144)
\* ------------------------------------------------------------------------

Abs(x) == IF x < 0 THEN 0 - x ELSE x

\* i16::from_le_bytes on the two bytes read as a u16
from_le_bytes(w) == IF w >= 32768 THEN w - 65536 ELSE w

\* i16::to_le_bytes, the two bytes read as a u16
to_le_bytes(x) == IF x < 0 THEN x + 65536 ELSE x

\* a float-to-i16 `as` cast of an integral value: saturating
as_i16(x) == Max(0 - 32768, Min(32767, x))

\* number of binary digits of n >= 0
BitLen(n) == CHOOSE b \in 0 .. 17 : n < 2^b /\ (b = 0 \/ 2^(b - 1) <= n)

\* line 137: gain = (volume_level as f32) / 100.0, for volume_level in
\* 1..100: the f32 nearest to volume_level / 100, as m / 2^e with a 24-bit m
\* (round to nearest, ties to even)
f32_gain(volume_level) ==
    LET e == CHOOSE k \in 23 .. 30 :
               /\ volume_level * 2^k >= 100 * 2^23
               /\ (k = 23 \/ volume_level * 2^(k - 1) < 100 * 2^23)
        n == volume_level * 2^e
        q == n \div 100
        r == n % 100
        m == IF r > 50 \/ (r = 50 /\ q % 2 = 1) THEN q + 1 ELSE q
    IN  IF m = 2^24 THEN [m |-> 2^23, e |-> e - 1] ELSE [m |-> m, e |-> e]

\* line 141: ((sample as f32) * gain) as i16 on the magnitude a of the
\* sample.  The exact product a * m / 2^e is split into its integer part
\* and its fraction (in two 12-bit limbs of m, so that every intermediate
\* value stays below 2^31); the f32 product is that value rounded to 24
\* significant bits, and the cast drops its fraction.  The rounding reaches
\* the next integer exactly when the fraction is within half a unit in the
\* last place of it.
f32_mul_to_int(a, g) ==
    LET hi   == a * (g.m \div 4096)
        lo   == a * (g.m % 4096)
        top  == hi + (lo \div 4096)
        int  == top \div 2^(g.e - 12)
        frac == (top % 2^(g.e - 12)) * 4096 + (lo % 4096)
        ex   == g.e + BitLen(int) - 25
        half == IF ex >= 0 THEN 2^ex ELSE 0
    IN  IF 2^g.e - frac <= half THEN int + 1 ELSE int

\* a gain stage that rounds the exact quotient to the nearest integer
amplified_sample_nearest(sample, volume_level) ==
    LET mag == (2 * Abs(sample) * volume_level + 100) \div 200
    IN  as_i16(IF sample < 0 THEN 0 - mag ELSE mag)

\* a gain stage in fixed point, with 41/4096 for 1/100
amplified_sample_fixed_point(sample, volume_level) ==
    LET mag == (Abs(sample) * volume_level * 41) \div 4096
    IN  as_i16(IF sample < 0 THEN 0 - mag ELSE mag)

\* lines 136-141: amplified_sample for one sample at one volume
amplified_sample(sample, volume_level) ==
    LET mag == IF volume_level = 0 \/ sample = 0
                 THEN 0
                 ELSE f32_mul_to_int(Abs(sample), f32_gain(volume_level))
    IN  as_i16(IF sample < 0 THEN 0 - mag ELSE mag)

\* samples beyond MaxSample the gain stage is applied to
EdgeSamples == {0 - 32768, 0 - 32767, 0 - 31500, 31500, 32766, 32767}

SampleWords ==
    { to_le_bytes(x) : x \in ((0 - MaxSample) .. MaxSample) \cup EdgeSamples }

\* lines 139-142: one pass of the loop body, on the two bytes in sample_bytes
GainStage ==
    /\ amplified = None
    /\ amplified' =
         Some(to_le_bytes(amplified_sample(from_le_bytes(sample_bytes), VOLUME)))
    /\ UNCHANGED << VOLUME, CURRENT_PERCENTAGE, IS_PLAYING, CURRENT_MUSIC_INDEX,
                    signals, raises, pressesLeft, encoderVars, audioLocals,
                    displayVars, audioTime, pre, cyc, took, logHist,
                    sample_bytes, cat >>

\* ------------------------------------------------------------------------
\* The engine cycle
\* ------------------------------------------------------------------------

\* a toggle that also rewinds the track
AudioPollPlayPause_rewinds ==
    /\ pc = "await"
    /\ pc' = "next"
    /\ cyc' = CycleStart
    /\ pre' = EngineState
    /\ took' = [took EXCEPT !.toggle = raises.toggle]
    /\ raises' = [raises EXCEPT !.toggle = 0]
    /\ IS_PLAYING_SIGNAL' = try_take(IS_PLAYING_SIGNAL)
    /\ is_playing' = IF is_some(IS_PLAYING_SIGNAL) THEN ~is_playing ELSE is_playing
    /\ audio_offset' = IF is_some(IS_PLAYING_SIGNAL) THEN 0 ELSE audio_offset
    /\ UNCHANGED << statics, NEXT, PREVIOUS, encoderVars, displayVars, pressesLeft,
                    current_music, total_len, avail, pushed,
                    audioTime, logHist, pureVars >>

\* lines 80-83: wake up from the Timer and poll IS_PLAYING_SIGNAL
AudioPollPlayPause ==
    /\ pc = "await"
    /\ pc' = "next"
    /\ cyc' = CycleStart
    /\ pre' = EngineState
    /\ took' = [took EXCEPT !.toggle = raises.toggle]
    /\ raises' = [raises EXCEPT !.toggle = 0]
    /\ IS_PLAYING_SIGNAL' = try_take(IS_PLAYING_SIGNAL)
    /\ is_playing' = IF is_some(IS_PLAYING_SIGNAL) THEN ~is_playing ELSE is_playing
    /\ UNCHANGED << statics, NEXT, PREVIOUS, encoderVars, displayVars, pressesLeft,
                    current_music, total_len, audio_offset, avail, pushed,
                    audioTime, logHist, pureVars >>

\* a poll of NEXT that is skipped while the engine is Paused
AudioPollNext_playing_only ==
    /\ pc = "next"
    /\ pc' = "prev"
    /\ pre' = EngineState
    /\ IF is_playing
         THEN /\ took' = [took EXCEPT !.next = raises.next]
              /\ raises' = [raises EXCEPT !.next = 0]
              /\ NEXT' = try_take(NEXT)
              /\ IF is_some(NEXT)
                   THEN /\ load_track(Musics_next(current_music))
                        /\ is_playing' = TRUE
                   ELSE UNCHANGED << current_music, CURRENT_MUSIC_INDEX, total_len,
                                     audio_offset, CURRENT_PERCENTAGE, is_playing,
                                     VOLUME, IS_PLAYING >>
         ELSE UNCHANGED << took, raises, NEXT, current_music, CURRENT_MUSIC_INDEX,
                           total_len, audio_offset, CURRENT_PERCENTAGE, is_playing,
                           VOLUME, IS_PLAYING >>
    /\ UNCHANGED << IS_PLAYING_SIGNAL, PREVIOUS, encoderVars,
                    displayVars, pressesLeft, avail, pushed, cyc,
                    audioTime, logHist, pureVars >>

\* lines 84-95: poll NEXT
AudioPollNext ==
    /\ pc = "next"
    /\ pc' = "prev"
    /\ pre' = EngineState
    /\ took' = [took EXCEPT !.next = raises.next]
    /\ raises' = [raises EXCEPT !.next = 0]
    /\ NEXT' = try_take(NEXT)
    /\ IF is_some(NEXT)
         THEN /\ load_track(Musics_next(current_music))
              /\ is_playing' = TRUE
         ELSE UNCHANGED << current_music, CURRENT_MUSIC_INDEX, total_len,
                           audio_offset, CURRENT_PERCENTAGE, is_playing,
                           VOLUME, IS_PLAYING >>
    /\ UNCHANGED << IS_PLAYING_SIGNAL, PREVIOUS, encoderVars,
                    displayVars, pressesLeft, avail, pushed, cyc,
                    audioTime, logHist, pureVars >>

\* lines 97-115: poll PREVIOUS
AudioPollPrevious ==
    /\ pc = "prev"
    /\ pc' = "publish"
    /\ pre' = EngineState
    /\ took' = [took EXCEPT !.prev = raises.prev]
    /\ raises' = [raises EXCEPT !.prev = 0]
    /\ PREVIOUS' = try_take(PREVIOUS)
    /\ IF is_some(PREVIOUS)
         THEN /\ IF restart_current(audio_offset, total_len)
                   THEN /\ audio_offset' = 0
                        /\ CURRENT_PERCENTAGE' = 0
                        /\ UNCHANGED << current_music, CURRENT_MUSIC_INDEX, total_len,
                                        VOLUME, IS_PLAYING >>
                   ELSE load_track(Musics_prev(current_music))
              /\ is_playing' = playing_after_previous(
                                   restart_current(audio_offset, total_len), is_playing)
         ELSE UNCHANGED << current_music, CURRENT_MUSIC_INDEX, total_len,
                           audio_offset, CURRENT_PERCENTAGE, is_playing,
                           VOLUME, IS_PLAYING >>
    /\ UNCHANGED << IS_PLAYING_SIGNAL, NEXT, encoderVars,
                    displayVars, pressesLeft, avail, pushed, cyc,
                    audioTime, logHist, pureVars >>

\* a cycle that leaves IS_PLAYING as it was
AudioPublish_skipped ==
    /\ pc = "publish"
    /\ pc' = "feed"
    /\ pre' = EngineState
    /\ IS_PLAYING' = IS_PLAYING
    /\ UNCHANGED << VOLUME, CURRENT_PERCENTAGE, CURRENT_MUSIC_INDEX, signals,
                    encoderVars, displayVars, current_music, total_len,
                    audio_offset, is_playing, avail, pushed, cyc, raises, took,
                    pressesLeft, audioTime, logHist, pureVars >>

\* line 117: publish the play state
AudioPublish ==
    /\ pc = "publish"
    /\ pc' = "feed"
    /\ pre' = EngineState
    /\ IS_PLAYING' = is_playing
    /\ UNCHANGED << VOLUME, CURRENT_PERCENTAGE, CURRENT_MUSIC_INDEX, signals,
                    encoderVars, displayVars, current_music, total_len,
                    audio_offset, is_playing, avail, pushed, cyc, raises, took,
                    pressesLeft, audioTime, logHist, pureVars >>

\* what transfer.available() can return: the free space of the circular
\* buffer, or any of AvailValues where the buffer is not followed
Available ==
    IF level.data = Untracked THEN AvailValues ELSE {DMA_BUFFER_SIZE - level.data}

\* a progress test that fires at one second sharp
log_due_inclusive(t) == t >= LOG_PERIOD_MS

\* line 150: last_log_time.elapsed() > Duration::from_secs(1)
log_due(t) == t > LOG_PERIOD_MS

\* the outcomes of the test of line 150
Elapsed ==
    IF last_log_time = Untracked THEN BOOLEAN ELSE {log_due(last_log_time)}

\* an age after a sleep of ms milliseconds; ages beyond the log period are
\* not told apart
after_sleep(t, ms) == Min(t + ms, LOG_PERIOD_MS + 1)

\* the buffer after n bytes were pushed and the I2S peripheral sent for ms
\* milliseconds at SAMPLE_RATE * BYTES_PER_SAMPLE bytes per second
drained(buf, n, ms) ==
    LET sent == buf.part + SAMPLE_RATE * BYTES_PER_SAMPLE * ms
    IN  [data |-> Max(0, buf.data + n - (sent \div 1000)),
         part |-> sent % 1000]

\* lines 120-166: read the free space, feed the DMA buffer, sleep
\*   a       = transfer.available()
\*   elapsed = last_log_time.elapsed() > 1 s
AudioFeed ==
    /\ pc = "feed"
    /\ pc' = "await"
    /\ pre' = EngineState
    /\ \E a \in Available, elapsed \in Elapsed :
         LET delay  == IF is_playing THEN FILL_DELAY_MS ELSE PAUSE_DELAY_MS
             logged == is_playing /\ a > HIGH_WATER /\ elapsed
         IN
         /\ avail' = a
         /\ IF ~is_playing
              THEN /\ pushed' = [kind |-> "silence", len |-> silence_chunk(a)]
                   /\ UNCHANGED << audio_offset, is_playing, IS_PLAYING,
                                   CURRENT_PERCENTAGE >>
              ELSE IF a > HIGH_WATER
                THEN LET chunk == chunk_size(a, total_len - audio_offset)
                         off   == audio_offset + chunk
                     IN  /\ pushed' = [kind |-> "track", len |-> chunk]
                         /\ IF at_eof(off, total_len)
                              THEN /\ audio_offset' = 0
                                   /\ is_playing' = FALSE
                                   /\ IS_PLAYING' = FALSE
                                   /\ CURRENT_PERCENTAGE' = 0
                              ELSE /\ audio_offset' = off
                                   /\ CURRENT_PERCENTAGE' =
                                        IF elapsed THEN percent_u8(off, total_len)
                                                   ELSE CURRENT_PERCENTAGE
                                   /\ UNCHANGED << is_playing, IS_PLAYING >>
                ELSE /\ pushed' = [kind |-> "none", len |-> 0]
                     /\ UNCHANGED << audio_offset, is_playing, IS_PLAYING,
                                     CURRENT_PERCENTAGE >>
         /\ last_log_time' =
              IF last_log_time = Untracked
                THEN Untracked
                ELSE after_sleep(IF logged THEN 0 ELSE last_log_time, delay)
         /\ logHist' =
              IF logHist.age = Untracked
                THEN logHist
                ELSE [age   |-> after_sleep(IF logged THEN 0 ELSE logHist.age, delay),
                      fired |-> logged]
         /\ IF level.data = Untracked
              THEN level' = level
              ELSE level' = drained(level, pushed'.len, delay)
    /\ UNCHANGED << VOLUME, CURRENT_MUSIC_INDEX, signals, encoderVars, displayVars,
                    current_music, total_len, cyc, raises, took, pressesLeft,
                    pureVars >>

audio_task ==
    \/ AudioPollPlayPause
    \/ AudioPollNext
    \/ AudioPollPrevious
    \/ AudioPublish
    \/ AudioFeed

\* ------------------------------------------------------------------------
\* button_task (src/button.rs), one instance per signal (src/main.rs 73-85)
\* ------------------------------------------------------------------------

spend(left) == IF left = Unlimited THEN Unlimited ELSE left - 1

\* a falling edge, the 20 ms debounce, and signal(true) if the pin is still low
button_task_toggle ==
    /\ pc = "await"
    /\ raises.toggle < MaxRaises
    /\ pressesLeft # 0
    /\ pressesLeft' = spend(pressesLeft)
    /\ \E is_low \in BOOLEAN :
         IF is_low
           THEN /\ IS_PLAYING_SIGNAL' = signal(IS_PLAYING_SIGNAL, TRUE)
                /\ raises' = [raises EXCEPT !.toggle = @ + 1]
           ELSE UNCHANGED << IS_PLAYING_SIGNAL, raises >>
    /\ UNCHANGED << statics, NEXT, PREVIOUS, encoderVars, audioLocals, displayVars,
                    audioHist, audioTime, pureVars >>

button_task_next ==
    /\ pc = "await"
    /\ raises.next < MaxRaises
    /\ pressesLeft # 0
    /\ pressesLeft' = spend(pressesLeft)
    /\ \E is_low \in BOOLEAN :
         IF is_low
           THEN /\ NEXT' = signal(NEXT, TRUE)
                /\ raises' = [raises EXCEPT !.next = @ + 1]
           ELSE UNCHANGED << NEXT, raises >>
    /\ UNCHANGED << statics, IS_PLAYING_SIGNAL, PREVIOUS, encoderVars, audioLocals,
                    displayVars, audioHist, audioTime, pureVars >>

button_task_prev ==
    /\ pc = "await"
    /\ raises.prev < MaxRaises
    /\ pressesLeft # 0
    /\ pressesLeft' = spend(pressesLeft)
    /\ \E is_low \in BOOLEAN :
         IF is_low
           THEN /\ PREVIOUS' = signal(PREVIOUS, TRUE)
                /\ raises' = [raises EXCEPT !.prev = @ + 1]
           ELSE UNCHANGED << PREVIOUS, raises >>
    /\ UNCHANGED << statics, IS_PLAYING_SIGNAL, NEXT, encoderVars, audioLocals,
                    displayVars, audioHist, audioTime, pureVars >>

button_task == button_task_toggle \/ button_task_next \/ button_task_prev

\* ------------------------------------------------------------------------
\* ENCODER_CHANNEL and encoder_reader_task (src/encoder.rs)
\* ------------------------------------------------------------------------

\* a capacity test that lets an eleventh event in
is_full_off_by_one(q) == Len(q) > ENCODER_CAPACITY

\* Channel::send completes only while the channel holds fewer than 10 events
is_full(q) == Len(q) >= ENCODER_CAPACITY

\* a send that puts the event at the head of the queue
channel_send_front(q, d) == << d >> \o q

\* Channel::send: the queue after an accepted send
channel_send(q, d) == Append(q, d)

\* lines 26-37: a rising edge on pin A, the 50 us debounce, and the direction
\* read from pin B if pin A is still high
encoder_edge ==
    /\ pc = "await"
    /\ encPc = "edge"
    /\ Len(sentLog) < sendLimit
    /\ \E is_high \in BOOLEAN, d \in Directions :
         IF is_high
           THEN /\ encPc' = "send"
                /\ direction' = d
           ELSE UNCHANGED << encPc, direction >>
    /\ UNCHANGED << statics, audioEnv, audioLocals, audioHist, audioTime, pureVars, displayVars,
                    ENCODER_CHANNEL, sentLog, applied, sendLimit, v0 >>

\* lines 38-45: ENCODER_CHANNEL.send(direction).await, suspended while the
\* channel is full; then the falling edge and the 20 ms debounce
encoder_send ==
    /\ pc = "await"
    /\ encPc = "send"
    /\ ~is_full(ENCODER_CHANNEL)
    /\ ENCODER_CHANNEL' = channel_send(ENCODER_CHANNEL, direction)
    /\ sentLog' = Append(sentLog, direction)
    /\ encPc' = "edge"
    /\ UNCHANGED << statics, audioEnv, audioLocals, audioHist, audioTime, pureVars, displayVars,
                    direction, applied, sendLimit, v0 >>

encoder_reader_task == encoder_edge \/ encoder_send

\* ------------------------------------------------------------------------
\* volume_handler_task (src/audio.rs 33-58)
\* ------------------------------------------------------------------------

\* the step up without the cap
volume_up_uncapped(v) == U8(v + VOLUME_STEP)

\* line 41: (v + 5).min(100) on u8
volume_up(v) == Min(U8(v + VOLUME_STEP), VOLUME_MAX)

\* the step down with a wrapping subtraction
volume_down_wrapping(v) == U8(v + 256 - VOLUME_STEP)

\* line 50: v.saturating_sub(5)
volume_down(v) == IF v < VOLUME_STEP THEN 0 ELSE v - VOLUME_STEP

volume_step(v, d) == IF d = "Clockwise" THEN volume_up(v) ELSE volume_down(v)

\* the earlier volume handler kept in src/music.rs 23-50
legacy_volume_step(v, d) ==
    IF d = "Clockwise"
      THEN (IF v < 100 THEN U8(v + 5) ELSE 100)
      ELSE (IF v > 0 THEN U8(v + 256 - 5) ELSE 0)

\* one iteration: ENCODER_CHANNEL.receive().await, then the fetch_update
volume_handler_task ==
    /\ pc = "await"
    /\ ENCODER_CHANNEL # << >>
    /\ VOLUME' = volume_step(VOLUME, Head(ENCODER_CHANNEL))
    /\ ENCODER_CHANNEL' = Tail(ENCODER_CHANNEL)
    /\ applied' = applied + 1
    /\ UNCHANGED << CURRENT_PERCENTAGE, IS_PLAYING, CURRENT_MUSIC_INDEX, audioEnv,
                    audioLocals, audioHist, audioTime, pureVars, displayVars, encPc, direction, sentLog,
                    sendLimit, v0 >>

\* ------------------------------------------------------------------------
\* display_task (src/display.rs 36-130)
\* ------------------------------------------------------------------------

\* one iteration of the refresh loop: clear, load the four published fields,
\* draw, flush.  The frame buffer is cleared and redrawn from those loads in
\* every iteration; the state the task carries from one iteration to the next
\* is the position in the wave animation, which advances only while
\* IS_PLAYING is set.
display_task ==
    /\ pc = "await"
    /\ wave' = IF IS_PLAYING THEN ~wave ELSE wave
    /\ UNCHANGED << statics, audioEnv, audioLocals, audioHist, audioTime, pureVars, encoderVars >>

\* ------------------------------------------------------------------------
\* Specifications
\* ------------------------------------------------------------------------

\* the whole system (src/main.rs 73-94), for a bounded number of button
\* presses and encoder events
Next ==
    \/ AudioPollPlayPause
    \/ AudioPollNext
    \/ AudioPollPrevious
    \/ AudioPublish
    \/ AudioFeed
    \/ button_task_toggle
    \/ button_task_next
    \/ button_task_prev
    \/ encoder_edge
    \/ encoder_send
    \/ volume_handler_task
    \/ display_task

Spec == Init /\ [][Next]_vars

\* the encoder, its channel and the volume handler
NextEnc ==
    \/ encoder_edge
    \/ encoder_send
    \/ volume_handler_task

InitEnc ==
    /\ VOLUME = VOLUME_INIT
    /\ v0 = VOLUME_INIT
    /\ sendLimit = MaxSends
    /\ pressesLeft = 0
    /\ InitStatics /\ InitTasks /\ InitHist /\ InitUntimed /\ InitIdle

SpecEnc == InitEnc /\ [][NextEnc]_vars

\* volume_handler_task is scheduled whenever it can receive
FairSpecEnc == SpecEnc /\ WF_vars(volume_handler_task) /\ WF_vars(encoder_send)

\* the volume path from every starting volume
InitLaw ==
    /\ VOLUME \in 0 .. VOLUME_MAX
    /\ v0 = VOLUME
    /\ sendLimit = LawSends
    /\ pressesLeft = 0
    /\ InitStatics /\ InitTasks /\ InitHist /\ InitUntimed /\ InitIdle

SpecLaw == InitLaw /\ [][NextEnc]_vars

\* the engine and its three buttons
NextAudio ==
    \/ AudioPollPlayPause
    \/ AudioPollNext
    \/ AudioPollPrevious
    \/ AudioPublish
    \/ AudioFeed
    \/ button_task_toggle
    \/ button_task_next
    \/ button_task_prev

InitAudio ==
    /\ VOLUME = VOLUME_INIT
    /\ v0 = VOLUME_INIT
    /\ sendLimit = 0
    /\ pressesLeft = Unlimited
    /\ InitStatics /\ InitTasks /\ InitHist /\ InitUntimed /\ InitIdle

SpecAudio == InitAudio /\ [][NextAudio]_vars

\* ------------------------------------------------------------------------
\* Properties of the engine (SpecAudio)
\* ------------------------------------------------------------------------

\* the engine has just finished a cycle that pushed track data
FilledCycle == pc = "await" /\ pushed.kind = "track"

\* C1: a fill cycle that brings the cursor to the end of the track (or past it)
\* ends with the engine Paused, the cursor at 0, IS_PLAYING false,
\* CURRENT_PERCENTAGE 0, and the track and CURRENT_MUSIC_INDEX unchanged.
C1_EndOfTrack ==
    (FilledCycle /\ pre.offset + pushed.len >= pre.total)
      => /\ ~is_playing
         /\ audio_offset = 0
         /\ IS_PLAYING = FALSE
         /\ CURRENT_PERCENTAGE = 0
         /\ current_music = pre.music
         /\ total_len = pre.total
         /\ CURRENT_MUSIC_INDEX = pre.index

\* a last, partial chunk of a track other than track 0 reached its end, after
\* progress had been published
C1_Witness ==
    /\ FilledCycle
    /\ pre.offset + pushed.len = pre.total
    /\ pushed.len < CHUNK_LEN
    /\ pre.music # 0
    /\ pre.percent > 0
    /\ pre.playing

\* the engine has just polled PREVIOUS and found it raised
PreviousConsumed == pc = "publish" /\ took.prev > 0

\* percentage played before the step, as line 99 computes it
PlayedBefore == (pre.offset * 100) \div pre.total

\* C2: a consumed Previous restarts the current track (offset 0, progress 0,
\* track and index unchanged) iff (offset*100)/total_len > 10, and otherwise
\* switches to the previous track of the catalog with offset 0 and progress 0.
C2_PreviousThreshold ==
    PreviousConsumed =>
      /\ audio_offset = 0
      /\ CURRENT_PERCENTAGE = 0
      /\ PlayedBefore > 10 =>
           /\ current_music = pre.music
           /\ total_len = pre.total
           /\ CURRENT_MUSIC_INDEX = pre.index
      /\ PlayedBefore <= 10 =>
           /\ current_music = Musics_prev(pre.music)
           /\ total_len = TrackBytes(Musics_prev(pre.music))
           /\ CURRENT_MUSIC_INDEX = to_index(Musics_prev(pre.music))
      /\ (current_music = pre.music) <=> (PlayedBefore > 10)

\* Previous consumed at exactly 10% played: the track is switched
C2_Witness ==
    /\ PreviousConsumed
    /\ PlayedBefore = 10
    /\ pre.offset > 0
    /\ current_music = Musics_prev(pre.music)
    /\ current_music # pre.music

\* Previous consumed at 11% played: the track is restarted
C2_WitnessRestart ==
    /\ PreviousConsumed
    /\ PlayedBefore = 11
    /\ current_music = pre.music

\* C3 as stated: a Previous that restarts the current track leaves the
\* play/pause state as it was before the Previous was processed.
C3_RestartKeepsState ==
    (PreviousConsumed /\ PlayedBefore > 10) => is_playing = pre.playing

\* C3 as the code has it: a consumed Previous forces Playing in both branches,
\* the restart included, and the flag published in that cycle is true.
C3_PreviousForcesPlaying ==
    /\ PreviousConsumed => is_playing
    /\ (pc = "feed" /\ took.prev > 0) => (is_playing /\ IS_PLAYING = TRUE)

\* a Paused engine restarted its track on Previous and is now Playing
C3_Witness ==
    /\ PreviousConsumed
    /\ PlayedBefore > 10
    /\ ~pre.playing
    /\ current_music = pre.music
    /\ is_playing

\* the engine has just polled NEXT and found it raised
NextConsumed == pc = "prev" /\ took.next > 0

\* C4: a consumed Next switches to the catalog's next track with offset 0,
\* CURRENT_PERCENTAGE 0, CURRENT_MUSIC_INDEX the new index and the engine
\* Playing; the flag published at the end of the control intake is true.
C4_Next ==
    /\ NextConsumed =>
         /\ current_music = Musics_next(pre.music)
         /\ total_len = TrackBytes(Musics_next(pre.music))
         /\ audio_offset = 0
         /\ CURRENT_PERCENTAGE = 0
         /\ CURRENT_MUSIC_INDEX = to_index(Musics_next(pre.music))
         /\ is_playing
    /\ (pc = "feed" /\ took.next > 0) => IS_PLAYING = TRUE

\* Next consumed while Paused in the middle of a track with progress published
C4_Witness ==
    /\ NextConsumed
    /\ ~pre.playing
    /\ pre.offset > 0
    /\ pre.percent > 0
    /\ current_music # pre.music

\* C5: with Next and Previous both pending at the start of a cycle, both are
\* consumed in it, Next first; Previous is tested against the switched track at
\* offset 0 and switches back, so the control intake ends on the track that
\* was current before the cycle, at offset 0.
C5_NextThenPrevious ==
    (pc = "publish" /\ cyc.next /\ cyc.prev) =>
      /\ took.next > 0
      /\ took.prev > 0
      /\ NEXT = None
      /\ PREVIOUS = None
      /\ pre.music = Musics_next(cyc.music)
      /\ pre.offset = 0
      /\ current_music = cyc.music
      /\ CURRENT_MUSIC_INDEX = to_index(cyc.music)
      /\ audio_offset = 0

\* both were pending with more than 10% of the track played
C5_Witness ==
    /\ pc = "publish"
    /\ cyc.next
    /\ cyc.prev
    /\ (cyc.offset * 100) \div TrackBytes(cyc.music) > 10
    /\ current_music = cyc.music
    /\ pre.music # cyc.music

\* C6: a signal slot is full exactly when its signal was raised at least once
\* since its last poll, each slot on its own; a poll empties the slot and
\* applies the command once however many raises preceded it.
C6_SingleSlot ==
    /\ is_some(IS_PLAYING_SIGNAL) <=> raises.toggle > 0
    /\ is_some(NEXT) <=> raises.next > 0
    /\ is_some(PREVIOUS) <=> raises.prev > 0
    /\ IS_PLAYING_SIGNAL \in {None, Some(TRUE)}
    /\ NEXT \in {None, Some(TRUE)}
    /\ PREVIOUS \in {None, Some(TRUE)}
    /\ pc = "next" =>
         /\ IS_PLAYING_SIGNAL = None
         /\ is_playing = (IF took.toggle > 0 THEN ~pre.playing ELSE pre.playing)
    /\ pc = "prev" =>
         /\ NEXT = None
         /\ current_music = (IF took.next > 0 THEN Musics_next(pre.music) ELSE pre.music)
    /\ pc = "publish" =>
         /\ PREVIOUS = None
         /\ current_music = (IF took.prev > 0 /\ PlayedBefore <= 10
                               THEN Musics_prev(pre.music) ELSE pre.music)

\* two presses of play/pause before one poll flipped the state once
C6_Witness ==
    /\ pc = "next"
    /\ took.toggle = 2
    /\ is_playing = ~pre.playing
    /\ IS_PLAYING_SIGNAL = None
    /\ raises.next = 2
    /\ is_some(NEXT)

\* ------------------------------------------------------------------------
\* Properties of the volume path (SpecLaw, SpecEnc, FairSpecEnc)
\* ------------------------------------------------------------------------

RECURSIVE FoldSteps(_, _)
\* the saturating step applied to v for each event of log, left to right
FoldSteps(log, v) ==
    IF log = << >> THEN v
    ELSE FoldSteps(Tail(log), IF Head(log) = "Clockwise"
                                THEN Min(100, v + 5) ELSE Max(0, v - 5))

RECURSIVE LegacyFold(_, _)
\* the handler of src/music.rs applied to v for each event of log
LegacyFold(log, v) ==
    IF log = << >> THEN v ELSE LegacyFold(Tail(log), legacy_volume_step(v, Head(log)))

\* the events volume_handler_task has applied so far
AppliedLog == SubSeq(sentLog, 1, applied)

AllOf(log, d) == \A i \in 1 .. Len(log) : log[i] = d

C7_WitnessDown ==
    /\ v0 = 7
    /\ applied = 3
    /\ AllOf(AppliedLog, "CounterClockwise")
    /\ VOLUME = 0

\* C8: events are applied in the order they were sent: VOLUME is the
\* left-to-right fold of the saturating step over the events applied so far,
\* which are the oldest events sent, the channel holds the rest in send order,
\* and once the channel is drained VOLUME is the fold over all events sent.
C8_FifoOrder ==
    /\ applied <= Len(sentLog)
    /\ ENCODER_CHANNEL = SubSeq(sentLog, applied + 1, Len(sentLog))
    /\ VOLUME = FoldSteps(AppliedLog, v0)
    /\ ENCODER_CHANNEL = << >> => VOLUME = FoldSteps(sentLog, v0)

\* the volume reached 100, then Clockwise and CounterClockwise queued together
\* were applied in that order: 95, where the reverse order gives 100
C8_Witness ==
    /\ ENCODER_CHANNEL = << >>
    /\ applied = 12
    /\ AllOf(SubSeq(sentLog, 1, 11), "Clockwise")
    /\ sentLog[12] = "CounterClockwise"
    /\ VOLUME = 95
    /\ FoldSteps(SubSeq(sentLog, 1, 10) \o << "CounterClockwise", "Clockwise" >>, v0) = 100

\* C9: ENCODER_CHANNEL never holds more than 10 events; while it is full the
\* producer stays suspended in its send and only a receive changes the
\* channel; every event accepted is either in the channel or applied, and the
\* number applied equals the number accepted again and again (for good once
\* the encoder stops turning).
C9_Backpressure ==
    /\ [](Len(ENCODER_CHANNEL) <= ENCODER_CAPACITY)
    /\ [](applied + Len(ENCODER_CHANNEL) = Len(sentLog))
    /\ [][(Len(ENCODER_CHANNEL) = ENCODER_CAPACITY /\ encPc = "send")
            => /\ encPc' = "send"
               /\ sentLog' = sentLog
               /\ ENCODER_CHANNEL' = Tail(ENCODER_CHANNEL)]_vars
    /\ []<>(applied = Len(sentLog))

\* the channel is full and the producer is suspended in send with an
\* eleventh event
C9_Witness ==
    /\ Len(ENCODER_CHANNEL) = ENCODER_CAPACITY
    /\ encPc = "send"
    /\ Len(sentLog) = ENCODER_CAPACITY
    /\ applied = 0

\* ------------------------------------------------------------------------
\* Properties of the whole system (Spec)
\* ------------------------------------------------------------------------

\* C10: VOLUME is modified only by volume_handler_task; IS_PLAYING,
\* CURRENT_PERCENTAGE and CURRENT_MUSIC_INDEX only by audio_task; the button,
\* encoder and display tasks modify none of the four, and audio_task never
\* modifies VOLUME.
C10_SingleWriter ==
    [][ /\ VOLUME' # VOLUME => volume_handler_task
        /\ ( \/ IS_PLAYING' # IS_PLAYING
             \/ CURRENT_PERCENTAGE' # CURRENT_PERCENTAGE
             \/ CURRENT_MUSIC_INDEX' # CURRENT_MUSIC_INDEX ) => audio_task
        /\ (button_task \/ encoder_reader_task \/ display_task) => UNCHANGED statics
        /\ audio_task => VOLUME' = VOLUME
        /\ volume_handler_task =>
             UNCHANGED << IS_PLAYING, CURRENT_PERCENTAGE, CURRENT_MUSIC_INDEX >>
      ]_vars

\* every field has been written by its writer, a button and the encoder
\* have acted and the display has refreshed while the engine was Playing
C10_Witness ==
    /\ VOLUME # VOLUME_INIT
    /\ CURRENT_MUSIC_INDEX # 0
    /\ IS_PLAYING = TRUE
    /\ CURRENT_PERCENTAGE > 0
    /\ pressesLeft < SysPresses
    /\ applied > 0
    /\ wave

\* ------------------------------------------------------------------------
\* Feeding the DMA buffer (SpecAudio)
\* ------------------------------------------------------------------------

\* C11: a cycle pushes track data exactly when it is Playing and the free
\* space is greater than 1024 (1024 itself does not fill).  The pushed length
\* is min(512, available, bytes left in the track), never more than the free
\* space, and the cursor moves on by that length (back to 0 when that reaches
\* the end of the track).  A Playing cycle with 1024 or less free pushes
\* nothing and leaves the cursor where it was.
C11_FillGate ==
    pc = "await" =>
      /\ (pushed.kind = "track") <=> (pre.playing /\ avail > 1024)
      /\ pushed.kind = "track" =>
           /\ pushed.len = Min(512, Min(avail, pre.total - pre.offset))
           /\ pushed.len <= avail
           /\ audio_offset = IF pre.offset + pushed.len >= pre.total
                               THEN 0
                               ELSE pre.offset + pushed.len
      /\ (pre.playing /\ avail <= 1024) =>
           /\ pushed.len = 0
           /\ audio_offset = pre.offset

\* a fill with 1025 bytes free that pushed the short tail of a track
C11_Witness ==
    /\ FilledCycle
    /\ avail = 1025
    /\ pushed.len = pre.total - pre.offset
    /\ pushed.len < 512
    /\ pushed.len > 0

\* a Playing cycle in mid-track that found exactly 1024 bytes free
C11_WitnessGate ==
    /\ pc = "await"
    /\ pre.playing
    /\ pre.offset > 0
    /\ avail = 1024
    /\ pushed.kind = "none"

\* C12: a cycle that is Paused after the control intake pushes exactly
\* min(available, 512) bytes of the zeroed block and no track data, and
\* leaves the cursor, the track, CURRENT_PERCENTAGE and CURRENT_MUSIC_INDEX
\* as they were.
C12_PausedSilence ==
    [][ (pc = "feed" /\ ~is_playing) =>
          /\ pushed' = [kind |-> "silence", len |-> Min(avail', 512)]
          /\ audio_offset' = audio_offset
          /\ current_music' = current_music
          /\ total_len' = total_len
          /\ CURRENT_PERCENTAGE' = CURRENT_PERCENTAGE
          /\ CURRENT_MUSIC_INDEX' = CURRENT_MUSIC_INDEX
          /\ pc' = "await"
      ]_vars

\* a Paused cycle in mid-track that found 300 bytes free and pushed 300
C12_Witness ==
    /\ pc = "await"
    /\ ~pre.playing
    /\ pre.offset > 0
    /\ avail = 300
    /\ pushed = [kind |-> "silence", len |-> 300]
    /\ audio_offset = pre.offset

\* ------------------------------------------------------------------------
\* The circular DMA buffer against the clock (SpecDma)
\* ------------------------------------------------------------------------

\* the engine and its buttons with the buffer followed byte by byte: the
\* transfer starts on the whole zeroed buffer (line 68), and each cycle takes
\* the time of its Timer::after
InitDma ==
    /\ VOLUME = VOLUME_INIT
    /\ v0 = VOLUME_INIT
    /\ sendLimit = 0
    /\ pressesLeft = DmaPresses
    /\ InitStatics /\ InitTasks /\ InitHist /\ InitIdle
    /\ last_log_time = Untracked
    /\ logHist = [age |-> Untracked, fired |-> FALSE]
    /\ level = [data |-> DMA_BUFFER_SIZE, part |-> 0]

SpecDma == InitDma /\ [][NextAudio]_vars

\* C13: the buffer never under-runs: with the peripheral sending 22050 bytes
\* per second and the engine cycling with its 5 ms and 10 ms delays, the
\* data pushed and not yet sent never falls to zero, whether the engine is
\* Playing or Paused and across toggles, track switches and ends of track.
C13_NoUnderrun == level.data > 0

\* the engine has played a track to its end, fallen back to silence and
\* pushed a block of it while the buffer kept more than half of its data
C13_Witness ==
    /\ pc = "await"
    /\ pushed.kind = "silence"
    /\ pushed.len > 0
    /\ cyc.offset = 0
    /\ CURRENT_MUSIC_INDEX = 2
    /\ ~pre.playing
    /\ pressesLeft = 0
    /\ 2 * level.data > DMA_BUFFER_SIZE

\* ------------------------------------------------------------------------
\* The gain stage on its own (SpecGain)
\* ------------------------------------------------------------------------

\* one sample of SampleWords at one volume of 0..100, or any sample at all
\* at volume 0 or 100
InitGain ==
    /\ \/ VOLUME \in 0 .. VOLUME_MAX /\ sample_bytes \in SampleWords
       \/ VOLUME \in {0, VOLUME_MAX} /\ sample_bytes \in 0 .. 65535
    /\ v0 = VOLUME
    /\ sendLimit = 0
    /\ pressesLeft = 0
    /\ InitStatics /\ InitTasks /\ InitHist /\ InitUntimed
    /\ amplified = None
    /\ cat = NoWalk

SpecGain == InitGain /\ [][GainStage]_vars

\* the input and the output of the gain stage as i16
GainIn == from_le_bytes(sample_bytes)

GainOut == from_le_bytes(amplified[1])

C14_WitnessShort ==
    /\ amplified # None
    /\ GainIn = 75
    /\ VOLUME = 84
    /\ GainOut = 62

\* C15: at volume 100 the two output bytes are the two input bytes, for
\* every 16-bit sample including -32768 and 32767; at volume 0 the output is
\* 0; and at every volume of 0..100 the magnitude of the output is at most
\* the magnitude of the input.
C15_GainFixedPoints ==
    amplified # None =>
      /\ VOLUME = 100 => amplified[1] = sample_bytes
      /\ VOLUME = 0 => GainOut = 0
      /\ Abs(GainOut) <= Abs(GainIn)

\* the sample -32768 has gone through the gain stage at volume 100
C15_Witness ==
    /\ amplified # None
    /\ VOLUME = 100
    /\ GainIn = 0 - 32768
    /\ GainOut = 0 - 32768

\* the sample 32767 has gone through the gain stage at volume 0
C15_WitnessMute ==
    /\ amplified # None
    /\ VOLUME = 0
    /\ GainIn = 32767
    /\ GainOut = 0

\* ------------------------------------------------------------------------
\* The progress log against the clock (SpecClock)
\* ------------------------------------------------------------------------

\* the engine and its buttons with the age of last_log_time followed:
\* last_log_time is taken at the start of the task (line 76) and each cycle
\* takes the time of its Timer::after
InitClock ==
    /\ VOLUME = VOLUME_INIT
    /\ v0 = VOLUME_INIT
    /\ sendLimit = 0
    /\ pressesLeft = ClockPresses
    /\ InitStatics /\ InitTasks /\ InitHist /\ InitIdle
    /\ last_log_time = 0
    /\ logHist = [age |-> 0, fired |-> FALSE]
    /\ level = [data |-> Untracked, part |-> 0]

SpecClock == InitClock /\ [][NextAudio]_vars

\* C16: a periodic progress publication comes more than one second after
\* the one before it (the first, more than one second after the task
\* started); every other change of CURRENT_PERCENTAGE is a store of 0 made
\* by a track switch, by a Previous, or at the end of a track.
C16_ProgressThrottle ==
    [][ /\ (pc = "feed" /\ logHist'.fired) => logHist.age > 1000
        /\ CURRENT_PERCENTAGE' # CURRENT_PERCENTAGE =>
             \/ pc = "feed" /\ logHist'.fired
             \/ /\ CURRENT_PERCENTAGE' = 0
                /\ \/ pc = "next" /\ is_some(NEXT)
                   \/ pc = "prev" /\ is_some(PREVIOUS)
                   \/ pc = "feed" /\ is_playing /\ ~is_playing' /\ audio_offset' = 0
      ]_vars

\* a second periodic publication: a fill has just published a percentage
\* other than the one published before it
C16_Witness ==
    /\ pc = "await"
    /\ logHist.fired
    /\ pre.percent > 0
    /\ CURRENT_PERCENTAGE > pre.percent

\* ------------------------------------------------------------------------
\* The ranges of the published fields (SpecRange)
\* ------------------------------------------------------------------------

\* volumes the handler has reached when the run starts: the initial one, the
\* two ends of the range and their neighbours
StartVolumes == {0, VOLUME_STEP, VOLUME_INIT, VOLUME_MAX - VOLUME_STEP, VOLUME_MAX}

\* the engine, its buttons and the volume path
NextRange ==
    \/ AudioPollPlayPause
    \/ AudioPollNext
    \/ AudioPollPrevious
    \/ AudioPublish
    \/ AudioFeed
    \/ button_task_toggle
    \/ button_task_next
    \/ button_task_prev
    \/ encoder_edge
    \/ encoder_send
    \/ volume_handler_task

InitRange ==
    /\ VOLUME \in StartVolumes
    /\ v0 = VOLUME
    /\ sendLimit = SysSends
    /\ pressesLeft = SysPresses
    /\ InitStatics /\ InitTasks /\ InitHist /\ InitUntimed /\ InitIdle

SpecRange == InitRange /\ [][NextRange]_vars

\* C17: VOLUME and CURRENT_PERCENTAGE are within 0..100 in every reachable
\* state.
C17_Ranges ==
    /\ VOLUME \in 0 .. 100
    /\ CURRENT_PERCENTAGE \in 0 .. 100

\* a clockwise step was applied at volume 100 and the engine has published
\* 90 percent of a track
C17_Witness ==
    /\ v0 = 100
    /\ applied > 0
    /\ sentLog[1] = "Clockwise"
    /\ VOLUME = 100
    /\ CURRENT_PERCENTAGE = 90

\* a counter-clockwise step was applied at volume 0
C17_WitnessDown ==
    /\ v0 = 0
    /\ applied > 0
    /\ sentLog[1] = "CounterClockwise"
    /\ VOLUME = 0

\* ------------------------------------------------------------------------
\* The control intake of every cycle (SpecAudio)
\* ------------------------------------------------------------------------

\* C18: every cycle, Playing or Paused, polls the three signals before it
\* touches the DMA buffer: when the cycle reaches its push, every signal
\* that was pending when the cycle started has been taken and applied and
\* no slot is left full, and the buffer is read and fed by no other step.
C18_PolledEveryCycle ==
    [][ /\ pc \in {"await", "next", "prev", "publish"} =>
             (pushed' = pushed /\ avail' = avail)
        /\ pc = "feed" =>
             /\ IS_PLAYING_SIGNAL = None /\ NEXT = None /\ PREVIOUS = None
             /\ cyc.toggle <=> took.toggle > 0
             /\ cyc.next <=> took.next > 0
             /\ cyc.prev <=> took.prev > 0
             /\ (cyc.next \/ cyc.prev) => (is_playing /\ audio_offset = 0)
             /\ (cyc.toggle /\ ~cyc.next /\ ~cyc.prev) => (is_playing = ~cyc.playing)
             /\ (~cyc.toggle /\ ~cyc.next /\ ~cyc.prev) => (is_playing = cyc.playing)
      ]_vars

\* a Paused engine has pushed silence and gone to sleep; Next was raised
\* during the sleep, and the cycle after it has taken it and is Playing
\* before its push
C18_Witness ==
    /\ pc = "feed"
    /\ pushed.kind = "silence"
    /\ ~cyc.playing
    /\ cyc.next
    /\ took.next > 0
    /\ NEXT = None
    /\ is_playing

\* ------------------------------------------------------------------------
\* The catalog on its own (SpecCatalog)
\* ------------------------------------------------------------------------

\* k times the move mv
Repeat(mv, k) == [i \in 1 .. k |-> mv]

\* the walks of the cyclic law over a catalog of n tracks
Walks(n) == { Repeat("next", n), Repeat("prev", n),
              << "next", "prev" >>, << "prev", "next" >> }

\* a catalog of 1..MaxTracks tracks, a starting track and a walk
InitCatalog ==
    /\ VOLUME = VOLUME_INIT
    /\ v0 = VOLUME_INIT
    /\ sendLimit = 0
    /\ pressesLeft = 0
    /\ InitStatics /\ InitTasks /\ InitHist /\ InitUntimed
    /\ sample_bytes = 0
    /\ amplified = None
    /\ \E n \in 1 .. MaxTracks, t \in 0 .. (MaxTracks - 1) :
         /\ t < n
         /\ cat \in { [n |-> n, start |-> t, cur |-> t, index |-> to_index(t),
                       walk |-> w, plan |-> w] : w \in Walks(n) }

\* one Next on the walk: the track becomes its next and its index is stored
\* (load_track, line 176)
CatalogNext ==
    /\ cat.plan # << >>
    /\ Head(cat.plan) = "next"
    /\ cat' = [cat EXCEPT !.cur = catalog_next(cat.cur, cat.n),
                          !.index = to_index(catalog_next(cat.cur, cat.n)),
                          !.plan = Tail(cat.plan)]
    /\ UNCHANGED << statics, signals, raises, pressesLeft, encoderVars, audioLocals,
                    displayVars, audioTime, audioHist, sample_bytes, amplified >>

\* one Previous on the walk, from the start of a track
CatalogPrev ==
    /\ cat.plan # << >>
    /\ Head(cat.plan) = "prev"
    /\ cat' = [cat EXCEPT !.cur = catalog_prev(cat.cur, cat.n),
                          !.index = to_index(catalog_prev(cat.cur, cat.n)),
                          !.plan = Tail(cat.plan)]
    /\ UNCHANGED << statics, signals, raises, pressesLeft, encoderVars, audioLocals,
                    displayVars, audioTime, audioHist, sample_bytes, amplified >>

NextCatalog == CatalogNext \/ CatalogPrev

SpecCatalog == InitCatalog /\ [][NextCatalog]_vars

\* C19: in a catalog of N >= 1 tracks, N times next and N times prev lead
\* from every track back to it, and prev after next and next after prev
\* lead back to it; so N Next in a row bring the stored index back to where
\* it started.
C19_CyclicLaw ==
    cat.plan = << >> =>
      /\ cat.cur = cat.start
      /\ cat.index = to_index(cat.start)

\* six times next over a catalog of six tracks, from its last track
C19_Witness ==
    /\ cat.n = MaxTracks
    /\ cat.start = MaxTracks - 1
    /\ cat.walk = Repeat("next", MaxTracks)
    /\ cat.plan = << >>
    /\ cat.cur = cat.start

\* ------------------------------------------------------------------------
\* The state at start-up (Spec)
\* ------------------------------------------------------------------------

\* the engine is Paused at the start of track 0 and has published that
Quiescent ==
    /\ ~is_playing
    /\ IS_PLAYING = FALSE
    /\ current_music = from_index(0)
    /\ audio_offset = 0
    /\ CURRENT_PERCENTAGE = 0
    /\ CURRENT_MUSIC_INDEX = 0

\* C20: the system starts Paused, with IS_PLAYING false, the cursor at
\* offset 0 of track 0, CURRENT_PERCENTAGE 0, CURRENT_MUSIC_INDEX 0 and
\* VOLUME 50; and as long as no button has been pressed, so that no signal
\* was ever raised, the engine stays in that state and pushes nothing but
\* silence.
C20_InitialState ==
    /\ Quiescent
    /\ VOLUME = 50
    /\ pushed.len = 0
    /\ [](pressesLeft = SysPresses =>
            /\ Quiescent
            /\ pushed.kind # "track"
            /\ IS_PLAYING_SIGNAL = None /\ NEXT = None /\ PREVIOUS = None
            /\ (pc = "await" /\ avail > 0) =>
                 pushed = [kind |-> "silence", len |-> Min(avail, 512)])

\* no button has been pressed, the volume has been turned, and the engine
\* has just pushed 512 bytes of silence
C20_Witness ==
    /\ pressesLeft = SysPresses
    /\ applied > 0
    /\ pc = "await"
    /\ avail > 512
    /\ pushed = [kind |-> "silence", len |-> 512]
    /\ Quiescent

\* ------------------------------------------------------------------------
\* The published fields at the engine's suspension points
\* ------------------------------------------------------------------------

\* C21: whenever audio_task is suspended in one of its two Timer awaits,
\* IS_PLAYING equals the engine's own is_playing, so no other task reads a
\* flag that differs from what the engine does next.
C21_FlagFresh == pc = "await" => IS_PLAYING = is_playing

\* the engine sleeps after the fill that ended a track: it is Paused, the
\* flag says so, and the display had seen the flag set while it played
C21_Witness ==
    /\ pc = "await"
    /\ pushed.kind = "track"
    /\ pre.playing
    /\ ~is_playing
    /\ IS_PLAYING = FALSE
    /\ wave

\* C22: whenever audio_task is suspended, CURRENT_MUSIC_INDEX is the index of
\* the track the cursor reads from; the index changes only in the poll that
\* takes a Next and in the poll that takes a Previous at 10% or less of the
\* track (the switch branch), so not by a toggle, a Previous restart, a
\* fill, a Paused cycle or the end of a track.
C22_IndexTracksCursor ==
    /\ pc = "await" => CURRENT_MUSIC_INDEX = to_index(current_music)
    /\ CURRENT_MUSIC_INDEX # pre.index =>
         \/ pc = "prev" /\ took.next > 0
         \/ /\ pc = "publish"
            /\ took.prev > 0
            /\ (pre.offset * 100) \div pre.total <= 10

\* the engine sleeps after playing track 2, reached by a Previous from
\* track 0, to its end: the index is still 2
C22_Witness ==
    /\ pc = "await"
    /\ pushed.kind = "track"
    /\ pre.playing
    /\ ~is_playing
    /\ audio_offset = 0
    /\ current_music = 2
    /\ CURRENT_MUSIC_INDEX = 2

\* a Previous past 10% of track 1 restarted it and left the index at 1
C22_WitnessRestart ==
    /\ pc = "publish"
    /\ took.prev > 0
    /\ (pre.offset * 100) \div pre.total > 10
    /\ pre.index = 1
    /\ CURRENT_MUSIC_INDEX = 1
    /\ audio_offset = 0

\* ------------------------------------------------------------------------
\* The cursor (SpecAudio)
\* ------------------------------------------------------------------------

\* C23: total_len is the length of the loaded track; at the start of every
\* cycle 0 <= audio_offset < total_len, and the cursor is never beyond
\* total_len, not even between the advance of a fill and the end-of-track
\* reset; so the bytes left are at least 1 at every fill, the chunk lies
\* within the track, and every fill pushes at least 1 byte.
C23_CursorBound ==
    /\ total_len = TrackBytes(current_music)
    /\ total_len > 0
    /\ audio_offset >= 0
    /\ audio_offset <= total_len
    /\ pc = "await" => audio_offset < total_len
    /\ FilledCycle =>
         /\ pre.total - pre.offset >= 1
         /\ pushed.len >= 1
         /\ pre.offset + pushed.len <= pre.total

\* a fill of track 2 from offset 512 pushed its last 188 bytes: the cursor
\* went to 700, the length of the track, and was reset
C23_Witness ==
    /\ FilledCycle
    /\ current_music = 2
    /\ pre.offset = 512
    /\ pushed.len = 188
    /\ pre.total = 700
    /\ audio_offset = 0

\* the cycle the engine is in, or is about to start, has TogglePlayPause
\* pending and neither Next nor Previous
OnlyToggle ==
    IF pc = "await"
      THEN is_some(IS_PLAYING_SIGNAL) /\ NEXT = None /\ PREVIOUS = None
      ELSE cyc.toggle /\ ~cyc.next /\ ~cyc.prev

\* C24: in a cycle whose only pending signal is TogglePlayPause, the control
\* intake flips Playing/Paused once and leaves the cursor, the track,
\* CURRENT_MUSIC_INDEX and VOLUME as they were; and while the engine is
\* Paused the cursor moves only when a Next or a Previous is taken.  So a
\* resume fills from the offset at which playback was paused.
C24_PauseKeepsPosition ==
    [][ /\ (OnlyToggle /\ pc # "feed" /\ pc' # pc) =>
             /\ audio_offset' = audio_offset
             /\ current_music' = current_music
             /\ total_len' = total_len
             /\ CURRENT_MUSIC_INDEX' = CURRENT_MUSIC_INDEX
             /\ VOLUME' = VOLUME
             /\ is_playing' = IF pc = "await" THEN ~is_playing ELSE is_playing
        /\ (~is_playing /\ audio_offset' # audio_offset) =>
             \/ pc = "next" /\ is_some(NEXT)
             \/ pc = "prev" /\ is_some(PREVIOUS)
      ]_vars

\* the engine was paused in mid-track and a toggle alone resumed it: the
\* fill of that cycle read from the paused offset
C24_Witness ==
    /\ FilledCycle
    /\ cyc.toggle /\ ~cyc.next /\ ~cyc.prev
    /\ ~cyc.playing
    /\ cyc.offset > 0
    /\ pre.offset = cyc.offset
    /\ audio_offset = cyc.offset + pushed.len

\* ------------------------------------------------------------------------
\* Playing a track to its end (FairSpecPlay)
\* ------------------------------------------------------------------------

\* the engine and its buttons for a bounded number of presses
InitPlay ==
    /\ VOLUME = VOLUME_INIT
    /\ v0 = VOLUME_INIT
    /\ sendLimit = 0
    /\ pressesLeft = SysPresses
    /\ InitStatics /\ InitTasks /\ InitHist /\ InitUntimed /\ InitIdle

\* the executor runs audio_task again after each of its Timer awaits
FairSpecPlay == InitPlay /\ [][NextAudio]_vars /\ WF_vars(audio_task)

\* no signal is pending and none will be raised
Settled ==
    /\ pressesLeft = 0
    /\ IS_PLAYING_SIGNAL = None
    /\ NEXT = None
    /\ PREVIOUS = None

\* C25: every fill moves the cursor forward (or, on reaching the end of the
\* track, resets it and pauses); and if available() is above 1024 again and
\* again, an engine that is Playing with no signal pending or to come
\* reaches the end of the track and is Paused at offset 0.
C25_PlaysToTheEnd ==
    /\ [][ (pc = "feed" /\ pushed'.kind = "track") =>
             \/ audio_offset' > audio_offset
             \/ audio_offset' = 0 /\ ~is_playing' /\ audio_offset + pushed'.len >= total_len
         ]_vars
    /\ ([]<>(pc = "await" /\ avail > 1024)) =>
         ((is_playing /\ Settled) ~> (~is_playing /\ audio_offset = 0))

\* after the last button press the engine played on from mid-track and has
\* just ended the track
C25_Witness ==
    /\ Settled
    /\ FilledCycle
    /\ ~cyc.toggle /\ ~cyc.next /\ ~cyc.prev
    /\ cyc.playing
    /\ cyc.offset > 0
    /\ ~is_playing
    /\ audio_offset = 0

====
